---- MODULE Spec2Model ----
(***************************************************************************)
(* Widget layout engine of perfolio-api: the widget service               *)
(* (internal/user/service/widget_service.go), the widget repository       *)
(* (internal/user/repository/widget_repo.go) and the in-memory read-      *)
(* through cache.  Every request is a process that runs the service       *)
(* method step by step; a step is one cache call, one SQL statement or    *)
(* one block of in-memory work on the *model.Widget the method holds.     *)
(* The cache stores pointers, so the widget held by a method may be the   *)
(* very object that sits in the cache and that another request holds:     *)
(* objects live in a heap and are named by handles.                       *)
(***************************************************************************)
EXTENDS Integers, Sequences, FiniteSets, TLC

\* ---------------------------------------------------------------- bounds
\* versions a client may assert in a request
MaxVersion == 2
\* number of service calls started in one behaviour
MaxOps == 3

\* ------------------------------------------------------------ small sets
Procs == {1, 2}
\* rows of the user table
Users == {"u1", "u2"}
\* authenticated callers; "u0" has no user row
Callers == {"u0", "u1", "u2"}
WidgetIds == {1, 2, 3, 4}
Handles == {1, 2, 3, 4}
NoHandle == 0

None == << >>
Some(v) == << v >>

\* ------------------------------------------------------- type registry
Registry ==
  [ experience |-> [DefaultComponent |-> "ExperienceWidget",
                    MinW |-> 3, MinH |-> 2, MaxW |-> 12, MaxH |-> 8,
                    DefaultSettings |-> "defaults:experience"],
    education  |-> [DefaultComponent |-> "EducationWidget",
                    MinW |-> 3, MinH |-> 2, MaxW |-> 12, MaxH |-> 6,
                    DefaultSettings |-> "defaults:education"] ]

\* the Schema of each type: for each array property the keys its items must
\* have, and for each scalar property its JSON type
Schema ==
  [ experience |-> [items |-> ("experiences" :> {"company", "title", "startDate"}),
                    types |-> ("showDates" :> "boolean")],
    education  |-> [items |-> ("schools" :> {"institution", "startDate"}),
                    types |-> << >>] ]

\* json.Unmarshal of the settings payloads that occur: for each array property
\* the keys each item carries, for each scalar property its JSON type.  A
\* payload that is not listed is not a JSON object.
Json ==
  "defaults:experience" :>
      [arrays |-> ("experiences" :> << >>), scalars |-> ("showDates" :> "boolean")]
  @@ "defaults:education" :>
      [arrays |-> ("schools" :> << >>), scalars |-> << >>]
  @@ "ok:experience" :>
      [arrays |-> ("experiences" :> << {"company", "title", "startDate"} >>
                   @@ "schools" :> << {"degree"} >>),
       scalars |-> ("showDates" :> "boolean")]
  @@ "ok:education" :>
      [arrays |-> ("schools" :> << {"institution", "startDate"} >>
                   @@ "experiences" :> << {"endDate"} >>),
       scalars |-> ("showDates" :> "string")]

\* gojsonschema.Validate: every violated constraint, as << property, item, key >>
Violations(schema, doc) ==
  UNION { UNION { { << a, k, f >> : f \in schema.items[a] \ doc.arrays[a][k] } :
                  k \in 1..Len(doc.arrays[a]) } :
          a \in DOMAIN schema.items \cap DOMAIN doc.arrays }
  \cup { << c, 0, "type" >> :
           c \in { d \in DOMAIN schema.types \cap DOMAIN doc.scalars :
                     doc.scalars[d] # schema.types[d] } }

ValidWidgetType(t) == t \in DOMAIN Registry

GetDefaultSettings(t) == Registry[t].DefaultSettings

SettingsErrorsFirstOnly(t, s) ==
  IF ~ValidWidgetType(t) THEN { << "type", 0, "unknown" >> }
  ELSE IF s = "" THEN {}
  ELSE IF s \notin DOMAIN Json THEN { << "json", 0, "invalid" >> }
  ELSE LET all == Violations(Schema[t], Json[s])
       IN  IF all = {} THEN {} ELSE { CHOOSE v \in all : TRUE }

\* what the error ValidateWidgetSettings returns lists ({}: it returns nil)
SettingsErrors(t, s) ==
  IF ~ValidWidgetType(t) THEN { << "type", 0, "unknown" >> }
  ELSE IF s = "" THEN {}
  ELSE IF s \notin DOMAIN Json THEN { << "json", 0, "invalid" >> }
  ELSE Violations(Schema[t], Json[s])

\* TRUE when the payload is accepted for the type
ValidateWidgetSettings(t, s) == SettingsErrors(t, s) = {}

\* ------------------------------------------------------------- records
NoWidget ==
  [id |-> 0, userId |-> "", type |-> "", component |-> "", x |-> 0, y |-> 0,
   w |-> 0, h |-> 0, settings |-> None, displayName |-> None,
   isVisible |-> FALSE, version |-> 0, deleted |-> FALSE]

NewWidget(id, uid) ==
  [id |-> id, userId |-> uid, type |-> "experience",
   component |-> "ExperienceWidget", x |-> 0, y |-> 0, w |-> 6, h |-> 4,
   settings |-> Some("defaults:experience"), displayName |-> None,
   isVisible |-> TRUE, version |-> 1, deleted |-> FALSE]

\* apperrors.Error, plus what a successful call hands back.  cur/exp are the
\* versions printed in a conflict message (0: the message names none).
\* errs is what a settings validation error lists.
Result(kind) ==
  [kind |-> kind, cur |-> 0, exp |-> 0, w |-> NoWidget, ws |-> << >>, errs |-> {}]
\* "widget has been modified, please refresh and try again"
ConflictModified == Result("Conflict")
NoResult == Result("none")
OK == Result("OK")
BadRequest == Result("BadRequest")
\* apperrors.BadRequest(err.Error()) around the error of ValidateWidgetSettings
InvalidSettings(t, s) == [BadRequest EXCEPT !.errs = SettingsErrors(t, s)]
NotFound == Result("NotFound")
Forbidden == Result("Forbidden")
Conflict(cur, exp) == [Result("Conflict") EXCEPT !.cur = cur, !.exp = exp]
\* an error that is not an apperrors.Error (fmt.Errorf around a driver error)
RawError == Result("RawError")

NoCall == [op |-> "none", id |-> 0, uid |-> "", req |-> << >>]

\* ------------------------------------------------------------- requests
NoUpdate ==
  [Type |-> None, Component |-> None, X |-> None, Y |-> None, W |-> None,
   H |-> None, Settings |-> None, DisplayName |-> None, IsVisible |-> None,
   Version |-> None]

\* update requests that touch the type or the settings
TypeRequests ==
  { [NoUpdate EXCEPT !.Type = Some("education"), !.Version = Some(v)] : v \in 1..MaxVersion }
  \cup
  { [NoUpdate EXCEPT !.Type = Some("education"), !.Settings = Some("ok:education"),
                     !.Version = Some(1)],
    [NoUpdate EXCEPT !.Type = Some("education"), !.Settings = Some("ok:experience"),
                     !.Version = Some(1)],
    [NoUpdate EXCEPT !.Settings = Some("ok:education"), !.Version = Some(1)],
    [NoUpdate EXCEPT !.Settings = Some("ok:experience"), !.Version = Some(1)],
    [NoUpdate EXCEPT !.Type = Some("bogus"), !.Version = Some(1)] }

\* the update requests a caller u sends; the few that concurrent calls are
\* explored with, or (rich) the ones a single call is explored with
UpdateRequests(u, rich) ==
  { [NoUpdate EXCEPT !.X = Some(1)],
    [NoUpdate EXCEPT !.X = Some(-1), !.Version = Some(1)] }
  \cup
  IF u = "u1"
    THEN { [NoUpdate EXCEPT !.X = Some(1), !.Version = Some(v)] : v \in 1..MaxVersion }
           \cup { [NoUpdate EXCEPT !.DisplayName = Some("n"), !.Version = Some(v)] :
                    v \in 1..(IF rich THEN MaxVersion ELSE 1) }
           \cup (IF rich THEN TypeRequests ELSE {})
    ELSE IF rich
      THEN { [NoUpdate EXCEPT !.X = Some(1), !.Version = Some(v)] : v \in 1..MaxVersion }
      ELSE {}

ValidateUpdateVersionOptional(req) ==
  /\ (req.X # None => req.X[1] >= 0)
  /\ (req.Y # None => req.Y[1] >= 0)
  /\ (req.W # None => req.W[1] >= 1 /\ req.W[1] <= 12)
  /\ (req.H # None => req.H[1] >= 1)

\* req.Version == nil, then the validate tags of model.UpdateWidgetRequest
ValidateUpdate(req) ==
  /\ req.Version # None
  /\ (req.X # None => req.X[1] >= 0)
  /\ (req.Y # None => req.Y[1] >= 0)
  /\ (req.W # None => req.W[1] >= 1 /\ req.W[1] <= 12)
  /\ (req.H # None => req.H[1] >= 1)

CreateRequests ==
  { [Type |-> "experience", Component |-> "ExperienceWidget", X |-> 0, Y |-> 1,
     W |-> 6, H |-> 4, Settings |-> "", DisplayName |-> ""],
    [Type |-> "experience", Component |-> "ExperienceWidget", X |-> 0, Y |-> 1,
     W |-> 0, H |-> 4, Settings |-> "", DisplayName |-> ""],
    [Type |-> "education", Component |-> "EducationWidget", X |-> 0, Y |-> 1,
     W |-> 6, H |-> 4, Settings |-> "", DisplayName |-> ""] }

\* further create requests a single call is explored with: a component of the
\* caller's own, no component, the smallest size the tags accept, and settings
\* that are not valid for the type or not JSON
MoreCreateRequests ==
  { [Type |-> "experience", Component |-> "CustomWidget", X |-> 0, Y |-> 1,
     W |-> 6, H |-> 4, Settings |-> "", DisplayName |-> ""],
    [Type |-> "experience", Component |-> "", X |-> 0, Y |-> 1,
     W |-> 6, H |-> 4, Settings |-> "", DisplayName |-> ""],
    [Type |-> "experience", Component |-> "ExperienceWidget", X |-> 0, Y |-> 1,
     W |-> 1, H |-> 1, Settings |-> "", DisplayName |-> ""],
    [Type |-> "experience", Component |-> "ExperienceWidget", X |-> 0, Y |-> 1,
     W |-> 6, H |-> 4, Settings |-> "ok:education", DisplayName |-> ""],
    [Type |-> "education", Component |-> "EducationWidget", X |-> 0, Y |-> 1,
     W |-> 6, H |-> 4, Settings |-> "{", DisplayName |-> ""] }

\* validate tags of model.CreateWidgetRequest
ValidateCreate(req) ==
  /\ req.Type # ""
  /\ req.Component # ""
  /\ req.X >= 0
  /\ req.Y >= 0
  /\ req.W >= 1 /\ req.W <= 12
  /\ req.H >= 1

PositionUpdate(i, u, v) ==
  [ID |-> i, UserID |-> u, X |-> 1, Y |-> i, W |-> 6, H |-> 4, Version |-> v]

Other(u) == IF u = "u1" THEN "u2" ELSE "u1"

\* the batches a caller u sends (rich: as for the update requests)
BatchRequests(u, rich) ==
  CASE u = "u1" ->
         { << PositionUpdate(1, u, v) >> : v \in 1..MaxVersion }
           \cup { << PositionUpdate(2, u, 1), PositionUpdate(1, u, v) >> : v \in 1..MaxVersion }
           \cup { << PositionUpdate(1, u, 1), PositionUpdate(2, u, 1) >>,
                  << PositionUpdate(1, u, 1), PositionUpdate(3, "u2", 1) >>,
                  << PositionUpdate(3, "u2", 1), PositionUpdate(1, u, 1) >> }
           \cup (IF rich
                   THEN { << PositionUpdate(1, u, 1), PositionUpdate(1, u, v) >> : v \in 1..2 }
                          \cup { << PositionUpdate(3, u, 1) >>,
                                 << PositionUpdate(1, u, 1), PositionUpdate(4, u, 1) >> }
                          \cup { << PositionUpdate(1, u, v), PositionUpdate(2, u, 1) >> :
                                   v \in 2..MaxVersion }
                   ELSE {})
    [] u = "u2" ->
         IF rich THEN { << PositionUpdate(3, u, 1) >>, << PositionUpdate(1, u, 1) >> } ELSE {}
    [] OTHER -> { << PositionUpdate(1, u, 1) >> }

\* validate tags of model.WidgetPositionUpdate, dived into by the batch request
ValidateBatch(updates) ==
  \A i \in 1..Len(updates) :
    /\ updates[i].ID # 0
    /\ updates[i].UserID # ""
    /\ updates[i].X >= 0
    /\ updates[i].Y >= 0
    /\ updates[i].W >= 1 /\ updates[i].W <= 12
    /\ updates[i].H >= 1
    /\ updates[i].Version # 0


\* ---------------------------------------------------------------- state
VARIABLES
  store,      \* committed rows of the widgets table, by id (NoWidget: no row)
  txw,        \* per process: rows written inside its open transaction
  cache,      \* cache entries "widget:{id}": handle of the cached object
  listCache,  \* cache entries "user_widgets:{userID}"
  heap,       \* *model.Widget objects, by handle
  proc,       \* per process: the running service call
  ret,        \* the call that has just returned, with its result
  ops         \* calls started so far

vars == << store, txw, cache, listCache, heap, proc, ret, ops >>

\* history of a running call: dirty - it has changed a committed row; tx - it
\* has opened a transaction; ver, view - the stored version of the widget it
\* names and (kept where calls run one at a time) what GetWidgetByID would
\* have handed back, when it started;
\* pre - the committed rows then (kept likewise); gone - a DeleteWidget of
\* that widget had returned by then; prev - the stored version its UPDATE
\* replaced; lost - a rival UpdateWidget that asserted the same, then current,
\* version has had its UPDATE applied since; beaten - a batch (or, for a
\* batch, an UpdateWidget) that asserted the same, then committed, version of
\* a widget this call names has committed since
NoHist == [dirty |-> FALSE, tx |-> FALSE, ver |-> 0, view |-> NoWidget,
           pre |-> << >>, gone |-> FALSE, prev |-> 0, lost |-> FALSE,
           beaten |-> FALSE]

\* pc - where the call stands; ref - the widget pointer it holds; idx - the
\* batch entry it is at (the id it inserted, for a create); tmp - the rows
\* GetUserWidgets has read
\* set - req.Settings of a running UpdateWidget once its checks are through
IdleProc == [pc |-> "idle", call |-> NoCall, ref |-> NoHandle, idx |-> 0,
             tmp |-> << >>, set |-> None, hist |-> NoHist]

\* idx - the batch entry the call was at when it returned (0: none)
NoRet == [call |-> NoCall, res |-> NoResult, hist |-> NoHist, idx |-> 0]
NoList == [valid |-> FALSE, ws |-> << >>]
NoTx == [i \in WidgetIds |-> NoWidget]

Init ==
  /\ store = [i \in WidgetIds |->
                CASE i \in {1, 2} -> NewWidget(i, "u1")
                  [] i = 3 -> NewWidget(i, "u2")
                  [] OTHER -> NoWidget]
  /\ txw = [p \in Procs |-> NoTx]
  /\ cache = [i \in WidgetIds |-> NoHandle]
  /\ listCache = [u \in Users |-> NoList]
  /\ heap = [h \in Handles |-> NoWidget]
  /\ proc = [p \in Procs |-> IdleProc]
  /\ ret = NoRet
  /\ ops = 0

\* -------------------------------------------------------------- helpers
Live(row) == row.id # 0 /\ ~row.deleted

\* a read that would see rows written by transactions still open
GetByIDUncommitted(id) ==
  LET row == IF \E q \in Procs : txw[q][id].id # 0
               THEN txw[CHOOSE q \in Procs : txw[q][id].id # 0][id]
               ELSE store[id]
  IN  IF Live(row) THEN row ELSE NoWidget

\* SELECT ... WHERE id = $1 AND deleted_at IS NULL, on the pool (committed rows)
GetByID(id) == IF Live(store[id]) THEN store[id] ELSE NoWidget

\* InMemoryCache.Get on "widget:{id}"
CacheHit(id) == cache[id] # NoHandle

\* what GetWidgetByID(id) hands back when it runs alone (NoWidget: NotFound)
View(id) == IF CacheHit(id) THEN heap[cache[id]] ELSE GetByID(id)

Min(S) == CHOOSE m \in S : \A n \in S : m <= n

\* objects nobody points to any more are garbage
Collect(hp, ch, pr) ==
  [h \in Handles |->
     IF (\E i \in WidgetIds : ch[i] = h) \/ (\E p \in Procs : pr[p].ref = h)
       THEN hp[h] ELSE NoWidget]

FreeHandle == Min({h \in Handles : heap[h].id = 0})

\* a row another process has written in its open transaction is locked
Locked(p, id) == \E q \in Procs \ {p} : txw[q][id].id # 0

Idle(p) == proc[p].pc = "idle"

\* the widget is soft-deleted and the DeleteWidget that did it has returned
Deleted(id) ==
  /\ store[id].deleted
  /\ \A q \in Procs : ~(proc[q].pc = "d_inval" /\ proc[q].call.id = id)

BeforeById(a, b) == a.id <= b.id

\* ORDER BY y ASC, x ASC (rows with equal keys in id order)
Before(a, b) ==
  \/ a.y < b.y
  \/ a.y = b.y /\ a.x < b.x
  \/ a.y = b.y /\ a.x = b.x /\ a.id <= b.id

RECURSIVE Sorted(_)
Sorted(S) ==
  IF S = {} THEN << >>
  ELSE LET m == CHOOSE a \in S : \A b \in S : Before(a, b)
       IN << m >> \o Sorted(S \ {m})

\* SELECT ... WHERE user_id = $1 AND deleted_at IS NULL ORDER BY y, x
GetByUserID(uid) ==
  Sorted({store[i] : i \in {j \in WidgetIds : Live(store[j]) /\ store[j].userId = uid}})

\* InMemoryCache.Delete on "user_widgets:{userID}"
DropList(uid) == [u \in Users |-> IF u = uid THEN NoList ELSE listCache[u]]

At(p, l) == [proc[p] EXCEPT !.pc = l]

\* the call of p goes on as np
Run(p, np) ==
  /\ proc' = [proc EXCEPT ![p] = np]
  /\ ret' = NoRet

\* the call of p returns r
ReturnWith(p, r, h) ==
  /\ proc' = [proc EXCEPT ![p] = IdleProc]
  /\ ret' = [call |-> proc[p].call, res |-> r, hist |-> h,
             idx |-> IF proc[p].call.op = "batch" THEN proc[p].idx ELSE 0]

Return(p, r) == ReturnWith(p, r, proc[p].hist)

StartHist(c, rich) ==
  [NoHist EXCEPT !.ver = IF c.id = 0 THEN 0 ELSE store[c.id].version,
                 !.view = IF c.id = 0 \/ ~rich THEN NoWidget ELSE View(c.id),
                 !.pre = IF rich THEN store ELSE << >>,
                 !.gone = IF c.id = 0 THEN FALSE ELSE Deleted(c.id)]

\* a request arrives and gets the first free process (rich: calls run one at
\* a time, a request arrives only when no call is running)
Accept(p, rich) ==
  /\ Idle(p)
  /\ rich => \A q \in Procs : Idle(q)
  /\ \A q \in Procs : Idle(q) => p <= q
  /\ ops < MaxOps
  /\ ops' = ops + 1

\* the call passes its entry checks and goes on at l
Enter(p, c, l, rich) ==
  /\ proc' = [proc EXCEPT ![p] = [IdleProc EXCEPT !.pc = l, !.call = c,
                                                  !.hist = StartHist(c, rich)]]
  /\ ret' = NoRet

\* the call fails its entry checks
Reject(c, r, rich) ==
  /\ proc' = proc
  /\ ret' = [call |-> c, res |-> r, hist |-> StartHist(c, rich), idx |-> 0]

\* ------------------------------------------------------- GetWidgetByID
StartGet(p, id, rich) ==
  /\ Accept(p, rich)
  /\ Enter(p, [op |-> "get", id |-> id, uid |-> "", req |-> << >>], "g_cache", rich)
  /\ UNCHANGED << store, txw, cache, listCache, heap >>

\* where the caller of GetWidgetByID goes on with the widget
AfterGet(p) ==
  CASE proc[p].call.op = "update" -> "u_check"
    [] proc[p].call.op = "delete" -> "d_check"
    [] OTHER -> "idle"

\* the cache lookup and, on a miss, the repository read
CacheGet(p) ==
  /\ proc[p].pc = "g_cache"
  /\ LET id == proc[p].call.id
         widget == GetByID(id)
     IN  IF CacheHit(id)
           THEN /\ IF proc[p].call.op = "get"
                     THEN Return(p, [OK EXCEPT !.w = heap[cache[id]]])
                     ELSE Run(p, [proc[p] EXCEPT !.pc = AfterGet(p), !.ref = cache[id]])
                /\ UNCHANGED heap
           ELSE IF widget.id = 0
             THEN /\ Return(p, NotFound)
                  /\ UNCHANGED heap
             ELSE /\ Run(p, [proc[p] EXCEPT !.pc = "g_set", !.ref = FreeHandle])
                  /\ heap' = [heap EXCEPT ![FreeHandle] = widget]
  /\ UNCHANGED << store, txw, cache, listCache, ops >>

CacheSet(p) ==
  /\ proc[p].pc = "g_set"
  /\ cache' = [cache EXCEPT ![proc[p].call.id] = proc[p].ref]
  /\ IF proc[p].call.op = "get"
       THEN Return(p, [OK EXCEPT !.w = heap[proc[p].ref]])
       ELSE Run(p, At(p, AfterGet(p)))
  /\ heap' = Collect(heap, cache', proc')
  /\ UNCHANGED << store, txw, listCache, ops >>

\* the entry's five minutes pass (between requests)
Expire(id) ==
  /\ \A p \in Procs : Idle(p)
  /\ CacheHit(id)
  /\ cache' = [cache EXCEPT ![id] = NoHandle]
  /\ heap' = Collect(heap, cache', proc)
  /\ ret' = NoRet
  /\ UNCHANGED << store, txw, listCache, proc, ops >>

\* -------------------------------------------------------- UpdateWidget
StartUpdate(p, id, uid, req, rich) ==
  /\ Accept(p, rich)
  /\ LET c == [op |-> "update", id |-> id, uid |-> uid, req |-> req]
     IN  IF ValidateUpdate(req)
           THEN Enter(p, c, "g_cache", rich)
           ELSE Reject(c, BadRequest, rich)
  /\ UNCHANGED << store, txw, cache, listCache, heap >>

TypeChanges(obj, req) == req.Type # None /\ req.Type[1] # obj.type

\* the settings the request carries once the type handling is through
SettingsOf(obj, req) ==
  IF TypeChanges(obj, req) /\ req.Settings = None
    THEN Some(GetDefaultSettings(req.Type[1]))
    ELSE req.Settings

UpdateChecksVersionFirst(obj, uid, req) ==
  IF obj.version # req.Version[1] THEN ConflictModified
  ELSE IF obj.userId # uid THEN Forbidden
  ELSE IF TypeChanges(obj, req) /\ ~ValidWidgetType(req.Type[1]) THEN BadRequest
  ELSE IF TypeChanges(obj, req) /\ req.Settings # None
          /\ ~ValidateWidgetSettings(req.Type[1], req.Settings[1])
    THEN InvalidSettings(req.Type[1], req.Settings[1])
  ELSE IF ~TypeChanges(obj, req) /\ req.Settings # None
          /\ ~ValidateWidgetSettings(obj.type, req.Settings[1])
    THEN InvalidSettings(obj.type, req.Settings[1])
  ELSE NoResult

UpdateChecksAnyOwner(obj, uid, req) ==
  IF obj.version # req.Version[1] THEN ConflictModified
  ELSE IF TypeChanges(obj, req) /\ ~ValidWidgetType(req.Type[1]) THEN BadRequest
  ELSE IF TypeChanges(obj, req) /\ req.Settings # None
          /\ ~ValidateWidgetSettings(req.Type[1], req.Settings[1])
    THEN InvalidSettings(req.Type[1], req.Settings[1])
  ELSE IF ~TypeChanges(obj, req) /\ req.Settings # None
          /\ ~ValidateWidgetSettings(obj.type, req.Settings[1])
    THEN InvalidSettings(obj.type, req.Settings[1])
  ELSE NoResult

\* the checks between GetWidgetByID and the field assignments: the error
\* they return, NoResult when they pass
UpdateChecks(obj, uid, req) ==
  IF obj.userId # uid THEN Forbidden
  ELSE IF obj.version # req.Version[1] THEN ConflictModified
  ELSE IF TypeChanges(obj, req) /\ ~ValidWidgetType(req.Type[1]) THEN BadRequest
  ELSE IF TypeChanges(obj, req) /\ req.Settings # None
          /\ ~ValidateWidgetSettings(req.Type[1], req.Settings[1])
    THEN InvalidSettings(req.Type[1], req.Settings[1])
  ELSE IF ~TypeChanges(obj, req) /\ req.Settings # None
          /\ ~ValidateWidgetSettings(obj.type, req.Settings[1])
    THEN InvalidSettings(obj.type, req.Settings[1])
  ELSE NoResult

\* widget.Type = *req.Type, the last statement of the type handling
SetType(obj, req) ==
  IF TypeChanges(obj, req) THEN [obj EXCEPT !.type = req.Type[1]] ELSE obj

UpdateCheck(p) ==
  /\ proc[p].pc = "u_check"
  /\ LET obj == heap[proc[p].ref]
         req == proc[p].call.req
         r == UpdateChecks(obj, proc[p].call.uid, req)
     IN  IF r = NoResult
           THEN /\ Run(p, [At(p, "u_mutate") EXCEPT !.set = SettingsOf(obj, req)])
                /\ heap' = [heap EXCEPT ![proc[p].ref] = SetType(obj, req)]
           ELSE /\ Return(p, r)
                /\ heap' = Collect(heap, cache, proc')
  /\ UNCHANGED << store, txw, cache, listCache, ops >>

Pick(opt, old) == IF opt = None THEN old ELSE opt[1]

\* the field assignments on the held widget, then widget.Version++
ApplyUpdate(obj, req, set) ==
  [obj EXCEPT
     !.component = Pick(req.Component, obj.component),
     !.x = Pick(req.X, obj.x),
     !.y = Pick(req.Y, obj.y),
     !.w = Pick(req.W, obj.w),
     !.h = Pick(req.H, obj.h),
     !.settings = IF set = None THEN obj.settings ELSE set,
     !.displayName = IF req.DisplayName = None THEN obj.displayName ELSE req.DisplayName,
     !.isVisible = Pick(req.IsVisible, obj.isVisible),
     !.version = obj.version + 1]

UpdateMutate(p) ==
  /\ proc[p].pc = "u_mutate"
  /\ heap' = [heap EXCEPT ![proc[p].ref] = ApplyUpdate(heap[proc[p].ref], proc[p].call.req, proc[p].set)]
  /\ Run(p, At(p, "u_write"))
  /\ UNCHANGED << store, txw, cache, listCache, ops >>

UpdateMatchesAnyVersion(row, obj) ==
  /\ Live(row)
  /\ row.userId = obj.userId

\* WHERE id = $11 AND user_id = $12 AND version = $13 AND deleted_at IS NULL
UpdateMatches(row, obj) ==
  /\ Live(row)
  /\ row.userId = obj.userId
  /\ row.version = obj.version - 1

\* SET type, component, x, y, w, h, settings, display_name, is_visible, version
UpdateRow(row, obj) ==
  [row EXCEPT !.type = obj.type, !.component = obj.component, !.x = obj.x,
              !.y = obj.y, !.w = obj.w, !.h = obj.h, !.settings = obj.settings,
              !.displayName = obj.displayName, !.isVisible = obj.isVisible,
              !.version = obj.version]

\* the version the caller of a running UpdateWidget asserted
Asserted(p) == proc[p].call.req.Version[1]

\* p and q run UpdateWidget on the same widget, both asserted the version
\* that was stored when they started, and q has not written yet
Rivals(p, q) ==
  /\ q # p
  /\ ~proc[q].hist.dirty
  /\ proc[p].call.op = "update" /\ proc[q].call.op = "update"
  /\ proc[q].call.id = proc[p].call.id
  /\ Asserted(q) = Asserted(p)
  /\ proc[p].hist.ver = Asserted(p)
  /\ proc[q].hist.ver = Asserted(q)

\* the running call of q asserts version v for widget id
Asserts(q, id, v) ==
  \/ /\ proc[q].call.op = "update"
     /\ proc[q].call.id = id
     /\ Asserted(q) = v
  \/ /\ proc[q].call.op = "batch"
     /\ \E i \in 1..Len(proc[q].call.req) :
          proc[q].call.req[i].ID = id /\ proc[q].call.req[i].Version = v

\* q has written nothing yet and asserts, for one of the widgets ids that p
\* is about to commit, the version that is committed now
Beaten(p, q, ids) ==
  /\ q # p
  /\ ~Idle(q)
  /\ ~proc[q].hist.dirty
  /\ \E id \in ids : Asserts(q, id, store[id].version)

\* repository Update: the UPDATE statement
UpdateWrite(p) ==
  /\ proc[p].pc = "u_write"
  /\ LET obj == heap[proc[p].ref]
         row == store[obj.id]
     IN  IF UpdateMatches(row, obj)
           THEN /\ ~Locked(p, obj.id)
                /\ store' = [store EXCEPT ![obj.id] = UpdateRow(row, obj)]
                /\ proc' = [q \in Procs |->
                     IF q = p
                       THEN [proc[p] EXCEPT !.pc = "u_inval", !.hist.dirty = TRUE,
                                            !.hist.prev = row.version]
                     ELSE IF Rivals(p, q) THEN [proc[q] EXCEPT !.hist.lost = TRUE]
                     ELSE IF proc[q].call.op = "batch" /\ Beaten(p, q, {obj.id})
                       THEN [proc[q] EXCEPT !.hist.beaten = TRUE]
                     ELSE proc[q]]
                /\ ret' = NoRet
           ELSE /\ Run(p, At(p, "u_disamb"))
                /\ UNCHANGED store
  /\ UNCHANGED << txw, cache, listCache, heap, ops >>

\* repository Update: no row came back, read the row to tell why
UpdateDisambiguate(p) ==
  /\ proc[p].pc = "u_disamb"
  /\ LET obj == heap[proc[p].ref]
         current == GetByID(obj.id)
     IN  IF current.id = 0
           THEN Return(p, NotFound)
           ELSE Return(p, Conflict(current.version, obj.version - 1))
  /\ heap' = Collect(heap, cache, proc')
  /\ UNCHANGED << store, txw, cache, listCache, ops >>

UpdateInvalidate(p) ==
  /\ proc[p].pc = "u_inval"
  /\ cache' = [cache EXCEPT ![proc[p].call.id] = NoHandle]
  /\ listCache' = DropList(proc[p].call.uid)
  /\ Return(p, [OK EXCEPT !.w = heap[proc[p].ref]])
  /\ heap' = Collect(heap, cache', proc')
  /\ UNCHANGED << store, txw, ops >>

\* -------------------------------------------------------- DeleteWidget
StartDelete(p, id, uid, rich) ==
  /\ Accept(p, rich)
  /\ Enter(p, [op |-> "delete", id |-> id, uid |-> uid, req |-> << >>], "g_cache", rich)
  /\ UNCHANGED << store, txw, cache, listCache, heap >>

DeleteWriteIgnoresMark(p) ==
  /\ proc[p].pc = "d_check"
  /\ LET id == proc[p].call.id
     IN  IF heap[proc[p].ref].userId # proc[p].call.uid
           THEN /\ Return(p, Forbidden)
                /\ UNCHANGED store
           ELSE /\ ~Locked(p, id)
                /\ store' = [store EXCEPT ![id].deleted = TRUE]
                /\ Run(p, [proc[p] EXCEPT !.pc = "d_inval", !.ref = NoHandle,
                                          !.hist.dirty = TRUE])
  /\ heap' = Collect(heap, cache, proc')
  /\ UNCHANGED << txw, cache, listCache, ops >>

\* the owner check, then repository Delete:
\* UPDATE widgets SET deleted_at = NOW() WHERE id = $1 AND deleted_at IS NULL
DeleteWrite(p) ==
  /\ proc[p].pc = "d_check"
  /\ LET id == proc[p].call.id
     IN  IF heap[proc[p].ref].userId # proc[p].call.uid
           THEN /\ Return(p, Forbidden)
                /\ UNCHANGED store
           ELSE IF Live(store[id])
             THEN /\ ~Locked(p, id)
                  /\ store' = [store EXCEPT ![id].deleted = TRUE]
                  /\ Run(p, [proc[p] EXCEPT !.pc = "d_inval", !.ref = NoHandle,
                                            !.hist.dirty = TRUE])
             ELSE /\ Return(p, NotFound)
                  /\ UNCHANGED store
  /\ heap' = Collect(heap, cache, proc')
  /\ UNCHANGED << txw, cache, listCache, ops >>

DeleteInvalidate(p) ==
  /\ proc[p].pc = "d_inval"
  /\ cache' = [cache EXCEPT ![proc[p].call.id] = NoHandle]
  /\ listCache' = DropList(proc[p].call.uid)
  /\ Return(p, OK)
  /\ heap' = Collect(heap, cache', proc')
  /\ UNCHANGED << store, txw, ops >>

\* -------------------------------------------------------- CreateWidget
DefaultedKeepsEmpty(req) == req

\* the settings CreateWidget ends up with when the request carries none
Defaulted(req) ==
  [req EXCEPT !.Settings = IF req.Settings = "" THEN GetDefaultSettings(req.Type)
                           ELSE req.Settings]

CreateChecksAnyUser(uid, req) ==
  IF ~ValidateCreate(req) THEN BadRequest
  ELSE IF ~ValidWidgetType(req.Type) THEN BadRequest
  ELSE IF req.Settings # "" /\ ~ValidateWidgetSettings(req.Type, req.Settings)
    THEN InvalidSettings(req.Type, req.Settings)
  ELSE NoResult

\* the checks before the widget is built: the error, NoResult when they pass
CreateChecks(uid, req) ==
  IF ~ValidateCreate(req) THEN BadRequest
  ELSE IF ~ValidWidgetType(req.Type) THEN BadRequest
  ELSE IF req.Settings # "" /\ ~ValidateWidgetSettings(req.Type, req.Settings)
    THEN InvalidSettings(req.Type, req.Settings)
  ELSE IF uid \notin Users THEN NotFound
  ELSE NoResult

StartCreate(p, uid, req, rich) ==
  /\ Accept(p, rich)
  /\ LET c == [op |-> "create", id |-> 0, uid |-> uid, req |-> req]
     IN  IF CreateChecks(uid, req) = NoResult
           THEN Enter(p, c, "c_write", rich)
           ELSE Reject(c, CreateChecks(uid, req), rich)
  /\ UNCHANGED << store, txw, cache, listCache, heap >>

\* the &model.Widget{...} CreateWidget builds, with the id uuid.New() gave it
BuildWidget(id, uid, req) ==
  [id |-> id, userId |-> uid, type |-> req.Type,
   component |-> IF req.Component = "" THEN Registry[req.Type].DefaultComponent
                 ELSE req.Component,
   x |-> req.X, y |-> req.Y, w |-> req.W, h |-> req.H,
   settings |-> IF Defaulted(req).Settings # "" THEN Some(Defaulted(req).Settings) ELSE None,
   displayName |-> IF req.DisplayName # "" THEN Some(req.DisplayName) ELSE None,
   isVisible |-> TRUE, version |-> 1, deleted |-> FALSE]

AnyIds == WidgetIds

\* the identifiers uuid.New() can give: none that a row has
UnusedIds == {i \in WidgetIds : store[i].id = 0}

\* repository Create: the INSERT
CreateWrite(p) ==
  /\ proc[p].pc = "c_write"
  /\ UnusedIds # {}
  /\ LET id == Min(UnusedIds)
     IN  /\ store' = [store EXCEPT ![id] = BuildWidget(id, proc[p].call.uid, proc[p].call.req)]
         /\ Run(p, [proc[p] EXCEPT !.pc = "c_inval", !.idx = id, !.hist.dirty = TRUE])
  /\ UNCHANGED << txw, cache, listCache, heap, ops >>

CreateInvalidate(p) ==
  /\ proc[p].pc = "c_inval"
  /\ listCache' = DropList(proc[p].call.uid)
  /\ Return(p, [OK EXCEPT !.w = BuildWidget(proc[p].idx, proc[p].call.uid, proc[p].call.req)])
  /\ UNCHANGED << store, txw, cache, heap, ops >>

\* ------------------------------------------------------ GetUserWidgets
StartList(p, uid, rich) ==
  /\ Accept(p, rich)
  /\ LET c == [op |-> "list", id |-> 0, uid |-> uid, req |-> << >>]
     IN  IF uid \in Users THEN Enter(p, c, "l_cache", rich) ELSE Reject(c, NotFound, rich)
  /\ UNCHANGED << store, txw, cache, listCache, heap >>

\* the cache lookup and, on a miss, the repository read
ListCacheGet(p) ==
  /\ proc[p].pc = "l_cache"
  /\ IF listCache[proc[p].call.uid].valid
       THEN Return(p, [OK EXCEPT !.ws = listCache[proc[p].call.uid].ws])
       ELSE Run(p, [proc[p] EXCEPT !.pc = "l_set", !.tmp = GetByUserID(proc[p].call.uid)])
  /\ UNCHANGED << store, txw, cache, listCache, heap, ops >>

ListCacheSet(p) ==
  /\ proc[p].pc = "l_set"
  /\ listCache' = [listCache EXCEPT ![proc[p].call.uid] = [valid |-> TRUE, ws |-> proc[p].tmp]]
  /\ Return(p, [OK EXCEPT !.ws = proc[p].tmp])
  /\ UNCHANGED << store, txw, cache, heap, ops >>

\* -------------------------------------------------- BatchUpdateWidgets
BatchChecksFirstOnly(uid, updates) ==
  IF ~ValidateBatch(updates) THEN BadRequest
  ELSE IF uid \notin Users THEN NotFound
  ELSE IF updates[1].UserID # uid THEN Forbidden
  ELSE NoResult

\* the checks before the repository is called: the error, NoResult when they pass
BatchChecks(uid, updates) ==
  IF ~ValidateBatch(updates) THEN BadRequest
  ELSE IF uid \notin Users THEN NotFound
  ELSE IF \E i \in 1..Len(updates) : updates[i].UserID # uid THEN Forbidden
  ELSE NoResult

\* the entry checks, then BeginTx and PrepareContext
StartBatch(p, uid, updates, rich) ==
  /\ Accept(p, rich)
  /\ LET c == [op |-> "batch", id |-> 0, uid |-> uid, req |-> updates]
     IN  IF BatchChecks(uid, updates) = NoResult
           THEN /\ proc' = [proc EXCEPT ![p] = [IdleProc EXCEPT !.pc = "b_upd", !.call = c,
                                !.idx = 1, !.hist = [StartHist(c, rich) EXCEPT !.tx = TRUE]]]
                /\ ret' = NoRet
           ELSE Reject(c, BatchChecks(uid, updates), rich)
  /\ UNCHANGED << store, txw, cache, listCache, heap >>

\* the row a statement of p's transaction sees
TxRow(p, id) == IF txw[p][id].id # 0 THEN txw[p][id] ELSE store[id]

\* WHERE id = $5 AND user_id = $6 AND version = $7 AND deleted_at IS NULL
PositionMatches(row, e) ==
  /\ Live(row)
  /\ row.userId = e.UserID
  /\ row.version = e.Version

PositionRowVersionOnly(row, e) == [row EXCEPT !.version = row.version + 1]

\* SET x = $1, y = $2, w = $3, h = $4, version = version + 1
PositionRow(row, e) ==
  [row EXCEPT !.x = e.X, !.y = e.Y, !.w = e.W, !.h = e.H, !.version = row.version + 1]

Entry(p) == proc[p].call.req[proc[p].idx]

\* the statement waits for a row that another open transaction has written
Waits(p) ==
  /\ proc[p].pc = "b_upd"
  /\ PositionMatches(TxRow(p, Entry(p).ID), Entry(p))
  /\ Locked(p, Entry(p).ID)

\* one round of the loop: the prepared UPDATE for the entry at idx
BatchUpdateEntry(p) ==
  /\ proc[p].pc = "b_upd"
  /\ LET e == Entry(p)
         row == TxRow(p, e.ID)
     IN  IF PositionMatches(row, e)
           THEN /\ ~Locked(p, e.ID)
                /\ txw' = [txw EXCEPT ![p][e.ID] = PositionRow(row, e)]
                /\ IF proc[p].idx = Len(proc[p].call.req)
                     THEN Run(p, At(p, "b_commit"))
                     ELSE Run(p, [proc[p] EXCEPT !.idx = proc[p].idx + 1])
           ELSE /\ Run(p, At(p, "b_disamb"))
                /\ UNCHANGED txw
  /\ UNCHANGED << store, cache, listCache, heap, ops >>

RollbackKeepsWrites(p) ==
  [i \in WidgetIds |-> IF txw[p][i].id # 0 THEN txw[p][i] ELSE store[i]]

\* the committed rows once tx.Rollback has run
Rollback(p) == store

BatchDisambiguateAlwaysConflict(p) ==
  /\ proc[p].pc = "b_disamb"
  /\ Return(p, Conflict(store[Entry(p).ID].version, Entry(p).Version))
  /\ txw' = [txw EXCEPT ![p] = NoTx]
  /\ store' = Rollback(p)
  /\ UNCHANGED << cache, listCache, heap, ops >>

\* no row came back: GetByID on the pool, then return (the deferred Rollback runs)
BatchDisambiguate(p) ==
  /\ proc[p].pc = "b_disamb"
  /\ LET e == Entry(p)
         widget == GetByID(e.ID)
     IN  IF widget.id = 0
           THEN Return(p, NotFound)
           ELSE Return(p, Conflict(widget.version, e.Version))
  /\ txw' = [txw EXCEPT ![p] = NoTx]
  /\ store' = Rollback(p)
  /\ UNCHANGED << cache, listCache, heap, ops >>

BatchCommit(p) ==
  /\ proc[p].pc = "b_commit"
  /\ store' = [i \in WidgetIds |-> IF txw[p][i].id # 0 THEN txw[p][i] ELSE store[i]]
  /\ txw' = [txw EXCEPT ![p] = NoTx]
  /\ proc' = [q \in Procs |->
       IF q = p THEN [proc[p] EXCEPT !.pc = "b_inval", !.hist.dirty = TRUE]
       ELSE IF Beaten(p, q, {i \in WidgetIds : txw[p][i].id # 0})
         THEN [proc[q] EXCEPT !.hist.beaten = TRUE]
       ELSE proc[q]]
  /\ ret' = NoRet
  /\ UNCHANGED << cache, listCache, heap, ops >>

BatchInvalidate(p) ==
  /\ proc[p].pc = "b_inval"
  /\ listCache' = DropList(proc[p].call.uid)
  /\ Return(p, OK)
  /\ UNCHANGED << store, txw, cache, heap, ops >>

\* two transactions wait for each other: the database aborts one statement
DeadlockAbort(p) ==
  /\ Waits(p)
  /\ \E q \in Procs \ {p} :
       /\ Waits(q)
       /\ txw[q][Entry(p).ID].id # 0
       /\ txw[p][Entry(q).ID].id # 0
  /\ txw' = [txw EXCEPT ![p] = NoTx]
  /\ store' = Rollback(p)
  /\ Return(p, RawError)
  /\ UNCHANGED << cache, listCache, heap, ops >>

StoreFailureKeepsWrites(p) ==
  /\ proc[p].pc \in {"u_write", "d_check", "c_write", "b_upd", "b_commit"}
  /\ proc[p].pc = "d_check" => heap[proc[p].ref].userId = proc[p].call.uid
  /\ txw' = [txw EXCEPT ![p] = NoTx]
  /\ store' = RollbackKeepsWrites(p)
  /\ Return(p, RawError)
  /\ heap' = Collect(heap, cache, proc')
  /\ UNCHANGED << cache, listCache, ops >>

\* a write statement, BeginTx or Commit fails in the driver (connection lost,
\* context cancelled): the method returns the wrapped error.  DeleteWidget
\* gets to its statement only past the owner check
StoreFailure(p) ==
  /\ proc[p].pc \in {"u_write", "d_check", "c_write", "b_upd", "b_commit"}
  /\ proc[p].pc = "d_check" => heap[proc[p].ref].userId = proc[p].call.uid
  /\ txw' = [txw EXCEPT ![p] = NoTx]
  /\ store' = Rollback(p)
  /\ Return(p, RawError)
  /\ heap' = Collect(heap, cache, proc')
  /\ UNCHANGED << cache, listCache, ops >>

\* ------------------------------------------------------- specification
Work(p) ==
  \/ CacheGet(p) \/ CacheSet(p)
  \/ UpdateCheck(p) \/ UpdateMutate(p) \/ UpdateWrite(p)
  \/ UpdateDisambiguate(p) \/ UpdateInvalidate(p)
  \/ DeleteWrite(p) \/ DeleteInvalidate(p)
  \/ CreateWrite(p) \/ CreateInvalidate(p)
  \/ ListCacheGet(p) \/ ListCacheSet(p)
  \/ BatchUpdateEntry(p) \/ BatchDisambiguate(p)
  \/ BatchCommit(p) \/ BatchInvalidate(p)

Step(p) == Work(p) \/ StoreFailure(p)

\* the requests that arrive
Start(p, rich) ==
  \/ \E id \in (IF rich THEN {1, 3, 4} ELSE {1}) : StartGet(p, id, rich)
  \/ \E uid \in (IF rich THEN Callers ELSE {"u0", "u1"}) : StartList(p, uid, rich)
  \/ \E uid \in (IF rich THEN Callers ELSE {"u0", "u1"}) :
       \E req \in CreateRequests \cup (IF rich THEN MoreCreateRequests ELSE {}) :
          StartCreate(p, uid, req, rich)
  \/ \E uid \in Users : \E req \in UpdateRequests(uid, rich) : StartUpdate(p, 1, uid, req, rich)
  \/ \E uid \in (IF rich THEN Users ELSE {"u1"}) : StartDelete(p, 1, uid, rich)
  \/ \E uid \in Callers : \E updates \in BatchRequests(uid, rich) : StartBatch(p, uid, updates, rich)

Next ==
  \/ \E p \in Procs : Start(p, FALSE)
  \/ \E p \in Procs : Step(p)
  \/ \E p \in Procs : DeadlockAbort(p)
  \/ \E id \in WidgetIds : Expire(id)

Spec == Init /\ [][Next]_vars

\* one request at a time: a call starts only when no other call is running
SeqNext ==
  \/ \E p \in Procs : Start(p, TRUE)
  \/ \E p \in Procs : Step(p)
  \/ \E id \in WidgetIds : Expire(id)

SeqSpec == Init /\ [][SeqNext]_vars

\* one request at a time, and no statement fails in the driver
ReliableNext ==
  \/ \E p \in Procs : Start(p, TRUE)
  \/ \E p \in Procs : Work(p)
  \/ \E id \in WidgetIds : Expire(id)

ReliableSpec == Init /\ [][ReliableNext]_vars

\* UpdateWidget calls of the owner on widget 1 that change its type or its
\* settings, running concurrently
RaceRequests ==
  { [NoUpdate EXCEPT !.Type = Some("education"), !.Version = Some(v)] : v \in 1..MaxVersion }
  \cup
  { [NoUpdate EXCEPT !.Settings = Some(s), !.Version = Some(v)] :
      s \in {"ok:experience", "ok:education"}, v \in 1..MaxVersion }

RaceNext ==
  \/ \E p \in Procs : \E req \in RaceRequests : StartUpdate(p, 1, "u1", req, FALSE)
  \/ \E p \in Procs :
        \/ CacheGet(p) \/ CacheSet(p)
        \/ UpdateCheck(p) \/ UpdateMutate(p) \/ UpdateWrite(p)
        \/ UpdateDisambiguate(p) \/ UpdateInvalidate(p)

RaceSpec == Init /\ [][RaceNext]_vars

\* calls of the two users on each other's widgets and on their own, running
\* concurrently: widget 1 belongs to u1, widget 3 to u2
CrossNext ==
  \/ \E p \in Procs : \E uid \in Users :
        StartUpdate(p, 1, uid, [NoUpdate EXCEPT !.X = Some(1), !.Version = Some(1)], FALSE)
  \/ \E p \in Procs : \E uid \in Users : StartDelete(p, 1, uid, FALSE)
  \/ \E p \in Procs : \E uid \in Users : \E id \in {1, 3} : \E owner \in Users :
        StartBatch(p, uid, << PositionUpdate(id, owner, 1) >>, FALSE)
  \/ \E p \in Procs :
        \/ CacheGet(p) \/ CacheSet(p)
        \/ UpdateCheck(p) \/ UpdateMutate(p) \/ UpdateWrite(p)
        \/ UpdateDisambiguate(p) \/ UpdateInvalidate(p)
        \/ DeleteWrite(p) \/ DeleteInvalidate(p)
        \/ BatchUpdateEntry(p) \/ BatchDisambiguate(p)
        \/ BatchCommit(p) \/ BatchInvalidate(p)

CrossSpec == Init /\ [][CrossNext]_vars

\* reads of widget 1 and of its owner's list running while the owner updates
\* the widget; no statement fails
ReadNext ==
  \/ \E p \in Procs : StartGet(p, 1, FALSE)
  \/ \E p \in Procs : StartList(p, "u1", FALSE)
  \/ \E p \in Procs : \E v \in 1..MaxVersion :
        StartUpdate(p, 1, "u1", [NoUpdate EXCEPT !.X = Some(1), !.Version = Some(v)], FALSE)
  \/ \E p \in Procs :
        \/ CacheGet(p) \/ CacheSet(p)
        \/ ListCacheGet(p) \/ ListCacheSet(p)
        \/ UpdateCheck(p) \/ UpdateMutate(p) \/ UpdateWrite(p)
        \/ UpdateDisambiguate(p) \/ UpdateInvalidate(p)

ReadSpec == Init /\ [][ReadNext]_vars

\* batches of u1 over widgets 1 and 2, in either order, and an UpdateWidget
\* of widget 1, running concurrently; no statement fails in the driver
WriteRequests ==
  { << PositionUpdate(1, "u1", v) >> : v \in 1..MaxVersion }
  \cup { << PositionUpdate(1, "u1", 1), PositionUpdate(2, "u1", 1) >>,
         << PositionUpdate(2, "u1", 1), PositionUpdate(1, "u1", 1) >> }

WriteNext ==
  \/ \E p \in Procs : \E updates \in WriteRequests : StartBatch(p, "u1", updates, FALSE)
  \/ \E p \in Procs : \E v \in 1..MaxVersion :
        StartUpdate(p, 1, "u1", [NoUpdate EXCEPT !.X = Some(1), !.Version = Some(v)], FALSE)
  \/ \E p \in Procs :
        \/ CacheGet(p) \/ CacheSet(p)
        \/ UpdateCheck(p) \/ UpdateMutate(p) \/ UpdateWrite(p)
        \/ UpdateDisambiguate(p) \/ UpdateInvalidate(p)
        \/ BatchUpdateEntry(p) \/ BatchDisambiguate(p)
        \/ BatchCommit(p) \/ BatchInvalidate(p)
  \/ \E p \in Procs : DeadlockAbort(p)

WriteSpec == Init /\ [][WriteNext]_vars

\* what a running call of p does next: its own next statement, or the error
\* of the database's deadlock detector
WriteStep(p) == Work(p) \/ DeadlockAbort(p)

\* the same calls, where each goroutine keeps running and the database
\* answers every statement that can be answered
WriteFairSpec == WriteSpec /\ \A p \in Procs : WF_vars(WriteStep(p))

\* --------------------------------------------------------------- claims
\* C1: of two UpdateWidget calls by the owner on one widget that both assert
\* the version stored when they started, at most one is applied: once the
\* UPDATE of one of them has gone through, the other returns an error and
\* has written nothing to the row.
C1_OneWinner ==
  (ret.call.op = "update" /\ ret.hist.lost)
    => (ret.res.kind \in {"Conflict", "NotFound", "RawError"} /\ ~ret.hist.dirty)

\* C2: a BatchUpdateWidgets call that returns an error leaves the committed
\* rows exactly as they were when it was called, whichever entry failed.
C2_BatchAllOrNothing ==
  (ret.call.op = "batch" /\ ret.res.kind \notin {"OK", "none"})
    => store = ret.hist.pre

\* a batch failed at its second entry, after the first had been written
\* inside the transaction
C2_Witness ==
  /\ ret.call.op = "batch"
  /\ ret.res.kind = "Conflict"
  /\ ret.idx = 2
  /\ ret.call.req[1].ID # ret.call.req[2].ID
  /\ store = ret.hist.pre

\* C3: an UpdateWidget call by the owner that asserts a version older than
\* the one stored when it was called is refused and writes nothing to the row.
C3_StaleRejected ==
  ( /\ ret.call.op = "update"
    /\ ret.call.req.Version # None
    /\ ValidateUpdate(ret.call.req)
    /\ ret.call.uid = store[ret.call.id].userId
    /\ ret.call.req.Version[1] < ret.hist.ver )
    => (ret.res.kind \in {"Conflict", "NotFound", "RawError"} /\ ~ret.hist.dirty)

\* C4: a create, update, delete or batch call that returns an error has left
\* the committed rows as they were, and GetWidgetByID of the widget it named
\* hands back what it would have handed back before the call.
C4_FailedCallNoEffect ==
  (ret.call.op \in {"create", "update", "delete", "batch"}
     /\ ret.res.kind \notin {"OK", "none"})
    => /\ store = ret.hist.pre
       /\ ret.call.id # 0 => View(ret.call.id) = ret.hist.view

\* C5: a Conflict returned by UpdateWidget or BatchUpdateWidgets carries the
\* version stored for the widget and the version the caller supplied for it.
C5_ConflictCarriesVersions ==
  (ret.call.op \in {"update", "batch"} /\ ret.res.kind = "Conflict")
    => LET id == IF ret.call.op = "update" THEN ret.call.id
                 ELSE ret.call.req[ret.idx].ID
           supplied == IF ret.call.op = "update" THEN ret.call.req.Version[1]
                       ELSE ret.call.req[ret.idx].Version
       IN  /\ ret.res.cur = store[id].version
           /\ ret.res.exp = supplied

\* C6: the widget a successful UpdateWidget returns carries the version its
\* UPDATE stored, which is the version the UPDATE replaced plus one.
C6_ReturnedVersion ==
  (ret.call.op = "update" /\ ret.res.kind = "OK")
    => ret.res.w.version = ret.hist.prev + 1

\* C7: no step of any call, in any interleaving, lowers the stored version of
\* a widget.
C7_VersionsNeverDecrease ==
  [][\A i \in WidgetIds : store'[i].version >= store[i].version]_vars

\* a widget has been through two successful mutations
C7_Witness == \E i \in WidgetIds : store[i].version = 3

\* C8: a (well-formed) batch of an existing caller that holds an entry owned
\* by somebody else is rejected with Forbidden at the entry checks: it never
\* gets to the repository, opens no transaction and applies no entry.
C8_ForeignEntryForbidden ==
  /\ \A p \in Procs :
       proc[p].call.op = "batch"
         => \A i \in 1..Len(proc[p].call.req) :
              proc[p].call.req[i].UserID = proc[p].call.uid
  /\ ( /\ ret.call.op = "batch"
       /\ ValidateBatch(ret.call.req)
       /\ ret.call.uid \in Users
       /\ \E i \in 1..Len(ret.call.req) : ret.call.req[i].UserID # ret.call.uid )
       => ( /\ ret.res.kind = "Forbidden"
            /\ ~ret.hist.tx
            /\ ~ret.hist.dirty
            /\ ret.idx = 0 )

\* a batch whose first entry is the caller's and whose second is not has been
\* rejected
C8_Witness ==
  /\ ret.call.op = "batch"
  /\ ret.res.kind = "Forbidden"
  /\ Len(ret.call.req) = 2
  /\ ret.call.req[1].UserID = ret.call.uid
  /\ ret.call.req[2].UserID # ret.call.uid
  /\ ~ret.hist.tx

\* C9: a GetWidgetByID, UpdateWidget or DeleteWidget of a widget, called after
\* a DeleteWidget of it has returned successfully, returns NotFound (or the
\* store's own failure), also when reads ran while the delete did.
C9_DeletedStaysGone ==
  ( /\ ret.call.op \in {"get", "update", "delete"}
    /\ ret.hist.gone
    /\ ret.call.op = "update" => ValidateUpdate(ret.call.req)
    /\ ret.call.op # "get" => ret.call.uid = store[ret.call.id].userId )
    => ret.res.kind \in {"NotFound", "RawError"}

\* C10: an UpdateWidget by the former owner of a deleted widget answers
\* NotFound whatever version it asserts, never Conflict.
C10_DeletedUpdateNotFound ==
  ( /\ ret.call.op = "update"
    /\ ret.hist.gone
    /\ ValidateUpdate(ret.call.req)
    /\ ret.call.uid = store[ret.call.id].userId )
    => (ret.res.kind = "NotFound" \/ ret.res.kind = "RawError")

\* C11: a successful UpdateWidget leaves every field its request omits at the
\* value the row had when the call was made (settings also move when the
\* type changes), whatever calls came before.
C11_OmittedFieldsKept ==
  (ret.call.op = "update" /\ ret.res.kind = "OK")
    => LET req == ret.call.req
           old == ret.hist.pre[ret.call.id]
           new == store[ret.call.id]
       IN  /\ req.Type = None => new.type = old.type
           /\ req.Component = None => new.component = old.component
           /\ req.X = None => new.x = old.x
           /\ req.Y = None => new.y = old.y
           /\ req.W = None => new.w = old.w
           /\ req.H = None => new.h = old.h
           /\ (req.Settings = None /\ new.type = old.type) => new.settings = old.settings
           /\ req.DisplayName = None => new.displayName = old.displayName
           /\ req.IsVisible = None => new.isVisible = old.isVisible

\* C12: with one call at a time, the store answering and every earlier call
\* having succeeded, an UpdateWidget whose request passes every check against
\* the stored row - the owner's, with the stored version - succeeds.
C12_CurrentVersionSucceeds ==
  ( /\ ret.call.op = "update"
    /\ ValidateUpdate(ret.call.req)
    /\ Live(ret.hist.pre[ret.call.id])
    /\ UpdateChecks(ret.hist.pre[ret.call.id], ret.call.uid, ret.call.req) = NoResult )
    => ret.res.kind = "OK"

\* C13: when a create, update, delete or batch has succeeded (calls one at a
\* time), no widget it changed has a cache entry that differs from its row,
\* and the cached list of the widget's owner, if any, equals the owner's rows.
C13_CachesFollowStore ==
  (ret.call.op \in {"create", "update", "delete", "batch"} /\ ret.res.kind = "OK")
    => \A id \in WidgetIds :
         store[id] # ret.hist.pre[id]
           => /\ View(id) = GetByID(id)
              /\ listCache[store[id].userId].valid
                   => listCache[store[id].userId].ws = GetByUserID(store[id].userId)

\* C14: no reader sees a batch half-way.  Every repository read (by id, or
\* the list by owner) hands back committed rows; the steps of a batch leave
\* the committed rows alone until its commit, and the commit puts every entry
\* of the batch in place in one step.
C14_NoIntermediateState ==
  [][\A p \in Procs :
       /\ (proc[p].pc = "g_cache" /\ proc'[p].pc = "g_set")
            => heap'[proc'[p].ref] = store[proc[p].call.id]
       /\ (proc[p].pc = "l_cache" /\ proc'[p].pc = "l_set")
            => \A k \in 1..Len(proc'[p].tmp) :
                 proc'[p].tmp[k] = store[proc'[p].tmp[k].id]
       /\ (proc[p].call.op = "batch" /\ [proc'[p] EXCEPT !.hist = proc[p].hist] # proc[p])
            => IF proc[p].pc = "b_commit" /\ proc'[p].pc = "b_inval"
                 THEN \A i \in 1..Len(proc[p].call.req) :
                        LET e == proc[p].call.req[i]
                        IN  /\ store'[e.ID].x = e.X /\ store'[e.ID].y = e.Y
                            /\ store'[e.ID].w = e.W /\ store'[e.ID].h = e.H
                            /\ store'[e.ID].version > store[e.ID].version
                 ELSE store' = store
  ]_vars

\* a GetWidgetByID has read the committed row of a widget while a batch holds
\* an uncommitted write of it
C14_Witness ==
  \E p \in Procs, q \in Procs :
    /\ proc[p].pc = "g_set"
    /\ proc[q].pc = "b_upd" /\ proc[q].idx = 2
    /\ txw[q][proc[p].call.id].id # 0
    /\ heap[proc[p].ref] = store[proc[p].call.id]
    /\ heap[proc[p].ref] # txw[q][proc[p].call.id]

\* C15: a BatchUpdateWidgets that ends on an error of the driver (at begin,
\* at an entry's statement or at commit) has persisted none of its entries,
\* however many it had written inside the transaction, and holds no
\* transaction any more.
C15_FailedBatchRolledBack ==
  (ret.call.op = "batch" /\ ret.res.kind = "RawError")
    => /\ store = ret.hist.pre
       /\ \A p \in Procs : txw[p] = NoTx

\* the driver failed after the first of two entries had been written
C15_Witness ==
  /\ ret.call.op = "batch"
  /\ ret.res.kind = "RawError"
  /\ Len(ret.call.req) = 2
  /\ ret.idx = 2
  /\ store = ret.hist.pre

C17_NonOwnerForbidden ==
  ( /\ ret.call.op \in {"update", "delete"}
    /\ Live(ret.hist.pre[ret.call.id])
    /\ ret.call.uid # ret.hist.pre[ret.call.id].userId
    /\ ret.call.op = "update" => ValidateUpdate(ret.call.req) )
    => /\ ret.res.kind = "Forbidden"
       /\ store = ret.hist.pre

\* a user who is not the owner asserted a version that is not the stored one
\* and got Forbidden
C17_Witness ==
  /\ ret.call.op = "update"
  /\ Live(store[ret.call.id])
  /\ ret.call.uid # store[ret.call.id].userId
  /\ ret.call.req.Version # None
  /\ ret.call.req.Version[1] # store[ret.call.id].version
  /\ ret.res.kind = "Forbidden"

\* C18: an UpdateWidget whose request carries no version is answered
\* BadRequest and has written nothing; no such call ever gets as far as
\* loading the widget.
C18_VersionRequired ==
  /\ \A p \in Procs :
       proc[p].call.op = "update" => proc[p].call.req.Version # None
  /\ (ret.call.op = "update" /\ ret.call.req.Version = None)
       => /\ ret.res.kind = "BadRequest"
          /\ ~ret.hist.dirty
          /\ ret.hist.ver = store[ret.call.id].version

\* a request without a version has been rejected
C18_Witness ==
  /\ ret.call.op = "update"
  /\ ret.call.req.Version = None
  /\ ret.call.req.X # None
  /\ ret.res.kind = "BadRequest"

\* C19: a successful UpdateWidget that changes the stored type and carries no
\* settings stores the new type with the new type's default settings; one
\* that carries settings stores settings that are valid for the type the row
\* then has (the new type on a type change, the current type otherwise).
C19_TypeChangeSettings ==
  (ret.call.op = "update" /\ ret.res.kind = "OK")
    => LET req == ret.call.req
           old == ret.hist.pre[ret.call.id]
           new == store[ret.call.id]
       IN  /\ (req.Type # None /\ req.Type[1] # old.type /\ req.Settings = None)
                => /\ new.type = req.Type[1]
                   /\ new.settings = Some(GetDefaultSettings(req.Type[1]))
           /\ req.Settings # None
                => /\ new.settings = req.Settings
                   /\ ValidateWidgetSettings(new.type, req.Settings[1])

\* C20: a successful CreateWidget whose request carries no settings stores
\* the registered default settings of the requested type.
C20_CreateDefaultSettings ==
  (ret.call.op = "create" /\ ret.res.kind = "OK" /\ ret.call.req.Settings = "")
    => /\ ret.res.w.id # 0
       /\ store[ret.res.w.id].type = ret.call.req.Type
       /\ store[ret.res.w.id].settings = Some(GetDefaultSettings(ret.call.req.Type))

\* a widget of a type other than the one the stored widgets have was created
\* without settings
C20_Witness ==
  /\ ret.call.op = "create"
  /\ ret.res.kind = "OK"
  /\ ret.call.req.Settings = ""
  /\ ret.call.req.Type = "education"
  /\ store[ret.res.w.id].settings = Some("defaults:education")

\* C21: every widget that is not deleted has a registered type, and its
\* settings, when it has any, are valid for the schema of that type.
C21_TypeAndSettingsValid ==
  \A id \in WidgetIds :
    Live(store[id]) =>
      /\ ValidWidgetType(store[id].type)
      /\ (store[id].settings # None
            => ValidateWidgetSettings(store[id].type, store[id].settings[1]))

\* C22: every widget that is not deleted has x >= 0 and y >= 0, and a width
\* and a height within the minimum and maximum its type is registered with.
C22_SizeWithinBounds ==
  \A id \in WidgetIds :
    (Live(store[id]) /\ ValidWidgetType(store[id].type)) =>
      /\ store[id].x >= 0
      /\ store[id].y >= 0
      /\ store[id].w >= Registry[store[id].type].MinW
      /\ store[id].w <= Registry[store[id].type].MaxW
      /\ store[id].h >= Registry[store[id].type].MinH
      /\ store[id].h <= Registry[store[id].type].MaxH

\* C24: a CreateWidget call of an existing user whose request is well formed
\* apart from its component is accepted, and the widget is stored with the
\* component of the request, or with the default component of its type when
\* the request names none.
C24_ComponentResolved ==
  ( /\ ret.call.op = "create"
    /\ ret.call.uid \in Users
    /\ ValidWidgetType(ret.call.req.Type)
    /\ ValidateCreate([ret.call.req EXCEPT !.Component = "any"])
    /\ ValidateWidgetSettings(ret.call.req.Type, ret.call.req.Settings) )
  => /\ ret.res.kind = "OK"
     /\ ret.res.w.component =
          (IF ret.call.req.Component # "" THEN ret.call.req.Component
           ELSE Registry[ret.call.req.Type].DefaultComponent)
     /\ store[ret.res.w.id] = ret.res.w

\* C23: a DeleteWidget by the owner of a widget that was already deleted when
\* the call was made is answered NotFound (or fails in the store), never
\* with success; and the step that deletes a widget changes nothing of its
\* row but the deletion mark.
C23_SecondDeleteNotFound ==
  /\ []( ( /\ ret.call.op = "delete"
           /\ ret.hist.gone
           /\ ret.call.uid = store[ret.call.id].userId )
         => ret.res.kind \in {"NotFound", "RawError"} )
  /\ [][ \A id \in WidgetIds :
           (~store[id].deleted /\ store'[id].deleted)
             => store'[id] = [store[id] EXCEPT !.deleted = TRUE] ]_vars

\* the owner deleted a widget, and a later DeleteWidget of theirs on it was
\* answered NotFound
C23_Witness ==
  /\ ret.call.op = "delete"
  /\ ret.hist.gone
  /\ ret.call.uid = store[ret.call.id].userId
  /\ ret.res.kind = "NotFound"
  /\ store[ret.call.id].deleted
  /\ store[ret.call.id].version >= 1

\* C25: the INSERT of a CreateWidget call adds one row whose identifier no
\* row had before, with version 1, visible and owned by the caller, and
\* leaves every other row as it was; the widget the call returns has
\* version 1, is visible and is owned by the caller.
C25_CreatedWidget ==
  /\ [][ \A p \in Procs :
           (proc[p].pc = "c_write" /\ proc'[p].pc = "c_inval")
             => LET id == proc'[p].idx
                IN  /\ \A j \in WidgetIds : store[j].id # id
                    /\ store'[id].id = id
                    /\ store'[id].version = 1
                    /\ store'[id].isVisible
                    /\ ~store'[id].deleted
                    /\ store'[id].userId = proc[p].call.uid
                    /\ \A j \in WidgetIds \ {id} : store'[j] = store[j] ]_vars
  /\ []( (ret.call.op = "create" /\ ret.res.kind = "OK")
         => /\ ret.res.w.version = 1
            /\ ret.res.w.isVisible
            /\ ret.res.w.userId = ret.call.uid
            /\ store[ret.res.w.id].id = ret.res.w.id )

\* a CreateWidget call has returned its widget, stored beside the widgets
\* that existed before
C25_Witness ==
  /\ ret.call.op = "create"
  /\ ret.res.kind = "OK"
  /\ ret.res.w.id = 4
  /\ store[4] = ret.res.w
  /\ store[4].version = 1
  /\ store[1].id = 1

\* C26: what GetUserWidgets returns for an existing user, when calls run one
\* at a time, holds each of the user's stored widgets that are not deleted
\* once, as stored, and nothing else, in ascending order of y and, for equal
\* y, of x.
C26_ListExactAndOrdered ==
  (ret.call.op = "list" /\ ret.res.kind = "OK")
    => LET ws == ret.res.ws
       IN  /\ { ws[i] : i \in 1..Len(ws) }
                = { store[j] : j \in { k \in WidgetIds :
                                        Live(store[k]) /\ store[k].userId = ret.call.uid } }
           /\ \A i, j \in 1..Len(ws) : i # j => ws[i].id # ws[j].id
           /\ \A i, j \in 1..Len(ws) :
                 i < j => \/ ws[i].y < ws[j].y
                          \/ ws[i].y = ws[j].y /\ ws[i].x <= ws[j].x

\* the list was served after an update had moved the first widget behind the
\* second
C26_Witness ==
  /\ ret.call.op = "list"
  /\ ret.res.kind = "OK"
  /\ Len(ret.res.ws) >= 2
  /\ ret.res.ws[1].id = 2
  /\ ret.res.ws[2].id = 1
  /\ ret.res.ws[2].version > 1

\* C27: a CreateWidget, GetUserWidgets or BatchUpdateWidgets call with a well
\* formed request for a user that does not exist returns NotFound, and has
\* neither opened a transaction nor written a row.
C27_UnknownUserNotFound ==
  ( /\ ret.call.op \in {"create", "list", "batch"}
    /\ ret.call.uid \notin Users
    /\ ret.call.op = "create"
         => /\ ValidateCreate(ret.call.req)
            /\ ValidWidgetType(ret.call.req.Type)
            /\ ValidateWidgetSettings(ret.call.req.Type, ret.call.req.Settings)
    /\ ret.call.op = "batch" => ValidateBatch(ret.call.req) )
  => /\ ret.res.kind = "NotFound"
     /\ ~ret.hist.dirty
     /\ ~ret.hist.tx
     /\ \A id \in WidgetIds : store[id].userId # ret.call.uid

\* a well formed CreateWidget for a user that does not exist was refused
C27_Witness ==
  /\ ret.call.op = "create"
  /\ ret.call.uid \notin Users
  /\ ValidateCreate(ret.call.req)
  /\ ret.res.kind = "NotFound"
  /\ store[4].id = 0

\* C28: when CreateWidget hands the settings of an otherwise well formed
\* request to ValidateWidgetSettings, a payload without content is accepted
\* for every registered type, and a JSON payload is refused exactly when it
\* violates the schema of the type, with an error that lists every required
\* key an item lacks and every property of the wrong JSON type.
C28_AllViolationsListed ==
  ( /\ ret.call.op = "create"
    /\ ValidateCreate(ret.call.req)
    /\ ValidWidgetType(ret.call.req.Type)
    /\ ret.call.req.Settings = "" \/ ret.call.req.Settings \in DOMAIN Json )
  => LET t == ret.call.req.Type
         s == ret.call.req.Settings
         errs == ret.res.errs
     IN  IF s = ""
           THEN ret.res.kind # "BadRequest" /\ errs = {}
           ELSE /\ \A a \in DOMAIN Schema[t].items \cap DOMAIN Json[s].arrays :
                     \A k \in 1..Len(Json[s].arrays[a]) :
                       \A f \in Schema[t].items[a] :
                         f \notin Json[s].arrays[a][k] => << a, k, f >> \in errs
                /\ \A c \in DOMAIN Schema[t].types \cap DOMAIN Json[s].scalars :
                     Json[s].scalars[c] # Schema[t].types[c] => << c, 0, "type" >> \in errs
                /\ ret.res.kind = "BadRequest" <=> errs # {}

\* settings that break four constraints of the experience schema were
\* refused with an error that lists the four
C28_Witness ==
  /\ ret.call.op = "create"
  /\ ret.call.req.Type = "experience"
  /\ ret.call.req.Settings = "ok:education"
  /\ ret.res.kind = "BadRequest"
  /\ Cardinality(ret.res.errs) = 4

\* C29: when a BatchUpdateWidgets call with two or more entries that name
\* different widgets has succeeded, and calls run one at a time, the row of
\* each widget it names has the x, y, w and h of the entry that names it.
C29_EachEntryApplied ==
  ( /\ ret.call.op = "batch"
    /\ ret.res.kind = "OK"
    /\ Len(ret.call.req) >= 2
    /\ \A i, j \in 1..Len(ret.call.req) :
          i # j => ret.call.req[i].ID # ret.call.req[j].ID )
  => \A i \in 1..Len(ret.call.req) :
       LET e == ret.call.req[i]
       IN  /\ store[e.ID].x = e.X
           /\ store[e.ID].y = e.Y
           /\ store[e.ID].w = e.W
           /\ store[e.ID].h = e.H

\* a batch of two entries with different targets succeeded, and the two
\* rows differ as the entries do
C29_Witness ==
  /\ ret.call.op = "batch"
  /\ ret.res.kind = "OK"
  /\ Len(ret.call.req) = 2
  /\ ret.call.req[1].ID # ret.call.req[2].ID
  /\ ret.call.req[1].Y # ret.call.req[2].Y
  /\ store[ret.call.req[1].ID].y = ret.call.req[1].Y
  /\ store[ret.call.req[2].ID].y = ret.call.req[2].Y

\* C30: when a BatchUpdateWidgets call has succeeded, and calls run one at a
\* time, each widget it names, be it in one entry or in several, has the
\* version it had before plus 1 and differs from what it was in x, y, w, h
\* and version at most, and every other row is as it was.
C30_BatchFrame ==
  (ret.call.op = "batch" /\ ret.res.kind = "OK")
    => \A id \in WidgetIds :
         LET old == ret.hist.pre[id]
             new == store[id]
         IN  IF \E i \in 1..Len(ret.call.req) : ret.call.req[i].ID = id
               THEN /\ new.version = old.version + 1
                    /\ new = [old EXCEPT !.x = new.x, !.y = new.y, !.w = new.w,
                                         !.h = new.h, !.version = new.version]
               ELSE new = old

\* C31: when UpdateWidget or BatchUpdateWidgets returns Conflict, the
\* committed version of the widget the error is about differs from the
\* version the caller asserted for it.
C31_ConflictIsMismatch ==
  /\ (ret.call.op = "update" /\ ret.res.kind = "Conflict")
       => store[ret.call.id].version # ret.call.req.Version[1]
  /\ (ret.call.op = "batch" /\ ret.res.kind = "Conflict")
       => store[ret.call.req[ret.idx].ID].version # ret.call.req[ret.idx].Version

\* C32: no step changes the owner of a widget, and a step that changes the
\* row of a widget in any way is the write of a call that was made in the
\* name of the owner of that widget.
C32_OwnershipIsolation ==
  [][ \A id \in WidgetIds :
        (store[id].id # 0 /\ store'[id] # store[id])
          => /\ store'[id].userId = store[id].userId
             /\ \E p \in Procs :
                  /\ proc[p].call.uid = store[id].userId
                  /\ proc[p].pc \in {"u_write", "d_check", "b_commit"}
                  /\ proc'[p].pc # proc[p].pc ]_vars

\* u2 was refused the deletion of a widget of u1 while a call of u1 was
\* running, and the widget is still there
C32_Witness ==
  /\ ret.call.op = "delete"
  /\ ret.call.uid = "u2"
  /\ ret.res.kind = "Forbidden"
  /\ store[ret.call.id].userId = "u1"
  /\ ~store[ret.call.id].deleted
  /\ \E p \in Procs : proc[p].pc # "idle" /\ proc[p].call.uid = "u1"

\* C33: once every call has returned, neither the cache entry of a widget
\* nor a cached list holds a widget at a version older than the committed
\* one, also when a read ran while an update of the widget did.
C33_NoStaleCacheAfterOverlap ==
  (\A p \in Procs : Idle(p))
    => /\ \A id \in WidgetIds :
            CacheHit(id) => heap[cache[id]].version >= store[id].version
       /\ \A u \in Users :
            listCache[u].valid
              => \A k \in 1..Len(listCache[u].ws) :
                   listCache[u].ws[k].version >= store[listCache[u].ws[k].id].version

\* C34: of a BatchUpdateWidgets call and another batch or an UpdateWidget
\* that run concurrently and assert the same committed version of a widget,
\* the one that is still running when the other commits returns Conflict
\* and has written no row.
C34_OneCommitter ==
  ret.hist.beaten => (ret.res.kind = "Conflict" /\ ~ret.hist.dirty)

\* C35: BatchUpdateWidgets calls that run concurrently over the same widgets,
\* also when they list them in opposite orders, all return, and each returns
\* success, NotFound or Conflict, never an error of the storage layer.
C35_BatchReturnsTyped ==
  /\ []( ret.call.op = "batch" => ret.res.kind \in {"OK", "NotFound", "Conflict"} )
  /\ \A p \in Procs : (proc[p].call.op = "batch") ~> Idle(p)
====
